---- MODULE Spec2Model ----
(***************************************************************************)
(* POP3 application-identification detectors of snort3                     *)
(* (src/network_inspectors/appid/detector_plugins/detector_pop3.cc).       *)
(*                                                                         *)
(* A payload is a sequence of bytes; a byte is a one-character string      *)
(* (the zero byte is the token NUL).  A cursor is a 0-based offset into    *)
(* the payload, so the byte the C code calls data[k] is payload[k+1].      *)
(* The per-flow record POP3DetectorData, the session flags and the log of  *)
(* framework calls form the state; one action is one call of a detector's  *)
(* validate() by the framework.                                            *)
(***************************************************************************)
EXTENDS Integers, Sequences, FiniteSets, TLC

VARIABLES
    dd_present,     \* the flow has a POP3DetectorData attached (data_get != nullptr)
    client,         \* dd->client  (ClientPOP3Data)
    server,         \* dd->server  (ServicePOP3Data)
    need_continue,  \* dd->need_continue
    flags,          \* session flags of the AppIdSession
    calls,          \* framework calls emitted so far, in order
    ret,            \* value returned by the last validate()
    parse_rc,       \* value returned by pop3_server_validate in the last call, or NoParse
    oob,            \* out-of-bounds reads performed by the last call
    hist,           \* payloads delivered so far: <<detector, direction, payload>>
    iter,           \* iterations of the command loop in the last call of the client parser
    heap,           \* buffers of the flow as they are allocated, handed over and freed
    freed           \* buffers released by pop3_free_state, once the flow is torn down

vars == <<dd_present, client, server, need_continue, flags, calls, ret, parse_rc, oob, hist, iter,
          heap, freed>>

----------------------------------------------------------------------------
(* Bytes and character classes                                             *)

CR == "\r"
LF == "\n"
NUL == "NUL"
TAB == "\t"
TICK == "BACKTICK"   \* the byte 0x60; the lexer does not accept it in a string

Upper == {"A","B","C","D","E","F","G","H","I","J","K","L","M",
          "N","O","P","Q","R","S","T","U","V","W","X","Y","Z"}
Lower == {"a","b","c","d","e","f","g","h","i","j","k","l","m",
          "n","o","p","q","r","s","t","u","v","w","x","y","z"}
Digit == {"0","1","2","3","4","5","6","7","8","9"}
Punct == {" ","!","#","$","%","&","'","(",")","*","+",",","-",".","/",
          ":",";","<","=",">","?","@","[","]","^","_",TICK,"{","|","}","~"}

isalnum(b) == b \in Upper \cup Lower \cup Digit
isprint(b) == b \in Upper \cup Lower \cup Digit \cup Punct

Min(a, b) == IF a < b THEN a ELSE b

\* the least element of a non-empty set of offsets: where a loop that walks
\* forward stops first
Least(S) == CHOOSE i \in S : \A j \in S : i <= j

\* bytes data[from] .. data[to-1] of a payload (0-based, half open)
Slice(data, from, to) == SubSeq(data, from + 1, to)

\* memcmp(data + at, lit, sizeof(lit)-1) == 0, all bytes known to be in the payload
BytesAt(data, at, lit) ==
    /\ at + Len(lit) <= Len(data)
    /\ \A i \in 1..Len(lit) : data[at + i] = lit[i]

----------------------------------------------------------------------------
(* Client command patterns                                                 *)

APOP     == <<"A","P","O","P"," ">>
DELE     == <<"D","E","L","E"," ">>
LISTC    == <<"L","I","S","T"," ">>
LISTEOC  == <<"L","I","S","T","\r","\n">>
LISTEOC2 == <<"L","I","S","T","\n">>
NOOP     == <<"N","O","O","P","\r","\n">>
NOOP2    == <<"N","O","O","P","\n">>
QUIT     == <<"Q","U","I","T","\r","\n">>
QUIT2    == <<"Q","U","I","T","\n">>
RETR     == <<"R","E","T","R"," ">>
STAT     == <<"S","T","A","T","\r","\n">>
STAT2    == <<"S","T","A","T","\n">>
RSET     == <<"R","S","E","T","\r","\n">>
RSET2    == <<"R","S","E","T","\n">>
TOP      == <<"T","O","P"," ">>
UIDL     == <<"U","I","D","L"," ">>
UIDLEOC  == <<"U","I","D","L","\r","\n">>
UIDLEOC2 == <<"U","I","D","L","\n">>
USER     == <<"U","S","E","R"," ">>
PASS     == <<"P","A","S","S"," ">>
CAPA     == <<"C","A","P","A","\r","\n">>
CAPA2    == <<"C","A","P","A","\n">>
AUTH     == <<"A","U","T","H"," ">>
AUTHEOC  == <<"A","U","T","H","\r","\n">>
AUTHEOC2 == <<"A","U","T","H","\n">>
AUTHEOC3 == <<"A","U","T","H"," ","\r","\n">>
AUTHEOC4 == <<"A","U","T","H"," ","\n">>
STLSEOC  == <<"S","T","L","S","\r","\n">>
STLSEOC2 == <<"S","T","L","S","\n">>

\* enum Client_App_Pattern_Index
PATTERN_USER       == 0
PATTERN_PASS       == 1
PATTERN_APOP       == 2
PATTERN_AUTH       == 3
PATTERN_AUTHEOC    == 4
PATTERN_AUTHEOC2   == 5
PATTERN_AUTHEOC3   == 6
PATTERN_AUTHEOC4   == 7
PATTERN_STLSEOC    == 8
PATTERN_STLSEOC2   == 9
PATTERN_POP3_OTHER == 10

POP3_COUNT_THRESHOLD == 4
MAX_VERSION_SIZE == 64

POP3_OK   == <<"+","O","K">>
POP3_ERR  == <<"-","E","R","R">>
POP3_TERM == <<".","\r","\n">>

\* the table the detector registers; entry k of the C array is entry k+1 here
pop3_client_patterns ==
    << USER, PASS, APOP, AUTH, AUTHEOC, AUTHEOC2, AUTHEOC3, AUTHEOC4, STLSEOC, STLSEOC2,
       DELE, LISTC, LISTEOC, LISTEOC2, NOOP, NOOP2, QUIT, QUIT2, RETR, STAT, STAT2,
       RSET, RSET2, TOP, UIDL, UIDLEOC, UIDLEOC2, CAPA, CAPA2 >>

num_pop3_client_patterns == Len(pop3_client_patterns)

eoc ==
    << FALSE, FALSE, FALSE, FALSE, TRUE, TRUE, TRUE, TRUE, TRUE,
       TRUE, FALSE, FALSE, TRUE, TRUE, TRUE, TRUE, TRUE, TRUE, FALSE, TRUE, TRUE, TRUE, TRUE,
       FALSE, FALSE, TRUE, TRUE, TRUE, TRUE >>

\* do_custom_init: the ids handed to the matcher are cooked_idx = 1, 2, ...
cooked_idx(k) == k

\* do_custom_init: longest_pattern is the largest pattern length
longest_pattern ==
    CHOOSE n \in {Len(pop3_client_patterns[k]) : k \in 1..num_pop3_client_patterns} :
        \A k \in 1..num_pop3_client_patterns : Len(pop3_client_patterns[k]) <= n

\* the callback: accept a reported match only when it ends at the pattern's own length
pop3_pattern_match(id, match_end_pos) ==
    Len(pop3_client_patterns[id]) = match_end_pos

\* the pattern registered under id occurs in text and ends at offset e
Occurs(text, id, e) ==
    LET pat == pop3_client_patterns[id]
    IN /\ Len(pat) <= e
       /\ e <= Len(text)
       /\ \A i \in 1..Len(pat) : text[e - Len(pat) + i] = pat[i]

\* SearchTool::find_all over the window: matches are reported in the order of
\* their end position and the search stops at the first one the callback
\* accepts.  The value is what the callback left in pattern_index (0: none).
find_all(text) ==
    LET hits == { h \in (1..Len(text)) \X (1..num_pop3_client_patterns) :
                      Occurs(text, cooked_idx(h[2]), h[1])
                      /\ pop3_pattern_match(cooked_idx(h[2]), h[1]) }
    IN IF hits = {} THEN 0
       ELSE cooked_idx((CHOOSE h \in hits : \A g \in hits : h[1] <= g[1])[2])

\* eoc[pattern_index] as the parser reads it; position num_pop3_client_patterns
\* is past the end of the array and yields whatever the build placed there
eoc_at(pattern_index, oob_eoc) ==
    IF pattern_index < num_pop3_client_patterns THEN eoc[pattern_index + 1] ELSE oob_eoc

----------------------------------------------------------------------------
(* State values                                                            *)

POP3_CLIENT_STATE_AUTH     == "AUTH"
POP3_CLIENT_STATE_TRANS    == "TRANS"
POP3_CLIENT_STATE_STLS_CMD == "STLS_CMD"

POP3_STATE_CONNECT  == "CONNECT"
POP3_STATE_RESPONSE == "RESPONSE"
POP3_STATE_CONTINUE == "CONTINUE"

APPID_INPROCESS == "INPROCESS"
APPID_SUCCESS   == "SUCCESS"
APPID_NOMATCH   == "NOMATCH"
NoReturn        == "none"

APP_ID_POP3  == "POP3"
APP_ID_POP3S == "POP3S"
APP_ID_NONE  == "-"

APPID_SESSION_CLIENT_GETS_SERVER_PACKETS == "CLIENT_GETS_SERVER_PACKETS"
APPID_SESSION_CLIENT_DETECTED            == "CLIENT_DETECTED"
APPID_SESSION_SERVICE_DETECTED           == "SERVICE_DETECTED"
APPID_SESSION_CONTINUE                   == "CONTINUE"
APPID_SESSION_ENCRYPTED                  == "ENCRYPTED"

APP_ID_FROM_INITIATOR == "FROM_INITIATOR"
APP_ID_FROM_RESPONDER == "FROM_RESPONDER"

NoParse == 2            \* pop3_server_validate was not called
NoVendor == "nullptr"   \* pd->vendor == nullptr

\* a char* that is nullptr is the empty sequence: the code only ever stores
\* non-empty strings in username (it tests username[0] before snort_strdup)
NoString == << >>

----------------------------------------------------------------------------
(* The per-flow record and the framework calls                             *)

\* snort_calloc(sizeof(POP3DetectorData)): every field zero
ZeroVersion == [i \in 1..MAX_VERSION_SIZE |-> NUL]

ZeroClient ==
    [ username |-> NoString, state |-> POP3_CLIENT_STATE_AUTH,
      set_flags |-> 0, detected |-> 0, got_user |-> 0 ]

ZeroServer ==
    [ state |-> POP3_STATE_CONNECT, count |-> 0, vendor |-> NoVendor,
      version |-> ZeroVersion, subtype |-> << >>, error |-> 0 ]

\* the C string held in a buffer: the bytes before the first zero byte
CStr(buf) ==
    LET zeros == { i \in 1..Len(buf) : buf[i] = NUL }
    IN IF zeros = {} THEN buf ELSE SubSeq(buf, 1, Least(zeros) - 1)

\* the state a call works on, and hands back
Ctx ==
    [ dd_present |-> dd_present, client |-> client, server |-> server,
      need_continue |-> need_continue, flags |-> flags, calls |-> calls,
      ret |-> NoReturn, parse_rc |-> NoParse, oob |-> {}, iter |-> << >>, heap |-> heap ]

\* a buffer is named by the position of its allocation in the log
HeapEvent(op, what, id) == [op |-> op, what |-> what, id |-> id]

\* the allocations of one kind of buffer, in the order they were made
allocations(h, what) ==
    { i \in 1..Len(h) : h[i].op = "alloc" /\ h[i].what = what }

\* the n buffers of a kind allocated last: what a pointer that was set at the
\* last allocation holds (n = 1), or a list the last n entries were pushed on
held(h, what, n) ==
    { i \in allocations(h, what) :
          Cardinality({ j \in allocations(h, what) : j > i }) < n }

\* the events that release or hand over a set of buffers, lowest first
RECURSIVE released(_, _, _)
released(op, what, ids) ==
    IF ids = {} THEN << >>
    ELSE <<HeapEvent(op, what, Least(ids))>> \o released(op, what, ids \ {Least(ids)})

\* fd->username = snort_strdup(username)
snort_strdup(c, name) ==
    [c EXCEPT !.heap = Append(@, HeapEvent("alloc", "username", Len(@) + 1)),
              !.client.username = name]

\* snort_free(username), the pointer being left as it is
snort_free(c) ==
    [c EXCEPT !.heap = @ \o released("free", "username", held(@, "username", 1))]

Call(f, service, app, user, success, vendor, version, subtype) ==
    [ f |-> f, service |-> service, app |-> app, user |-> user, success |-> success,
      vendor |-> vendor, version |-> version, subtype |-> subtype ]

set_session_flags(c, flag)   == [c EXCEPT !.flags = @ \cup {flag}]
clear_session_flags(c, flag) == [c EXCEPT !.flags = @ \ {flag}]
get_session_flags(c, flag)   == flag \in c.flags

\* add_app(asd, service_id, client_id, nullptr); "sets APPID_SESSION_CLIENT_DETECTED"
add_app(c, service_id, client_id) ==
    [ set_session_flags(c, APPID_SESSION_CLIENT_DETECTED) EXCEPT
        !.calls = Append(@, Call("add_app", service_id, client_id, NoString, 0, NoVendor, NoString, << >>)) ]

add_user(c, username, app, success) ==
    [c EXCEPT !.calls = Append(@, Call("add_user", APP_ID_NONE, app, username, success, NoVendor, NoString, << >>))]

\* the service is declared: later calls see APPID_SESSION_SERVICE_DETECTED
add_service_consume_subtype(c, app, vendor, version, subtype) ==
    [ set_session_flags(c, APPID_SESSION_SERVICE_DETECTED) EXCEPT
        !.calls = Append(@, Call("add_service_consume_subtype", app, APP_ID_NONE, NoString, 0,
                                 vendor, version, subtype)) ]

fail_service(c) ==
    [c EXCEPT !.calls = Append(@, Call("fail_service", APP_ID_NONE, APP_ID_NONE, NoString, 0, NoVendor, NoString, << >>))]

service_inprocess(c) ==
    [c EXCEPT !.calls = Append(@, Call("service_inprocess", APP_ID_NONE, APP_ID_NONE, NoString, 0, NoVendor, NoString, << >>))]

\* data_get(asd) returned nullptr: allocate and attach a zeroed record
data_add(c) ==
    IF c.dd_present THEN c
    ELSE [c EXCEPT !.dd_present = TRUE, !.client = ZeroClient, !.server = ZeroServer,
                   !.need_continue = 0]

----------------------------------------------------------------------------
(* pop3_check_line                                                         *)

\* rc 0: a line ending in CRLF was consumed; 1: the payload ended first;
\* -1: a byte that is not printable, or a CR not followed by LF
\* for (; (*data)<end; (*data)++): the loop leaves at the first byte that is a
\* CR or is not printable, or runs to the end of the payload
pop3_check_line(data, at) ==
    LET stops == { i \in at..(Len(data) - 1) : data[i + 1] = CR \/ ~isprint(data[i + 1]) }
        i     == Least(stops)
    IN IF stops = {} THEN [rc |-> 1, data |-> IF at < Len(data) THEN Len(data) ELSE at]
       ELSE IF data[i + 1] = CR
            THEN IF i + 1 < Len(data) /\ data[i + 2] = LF
                 THEN [rc |-> 0, data |-> i + 2]
                 ELSE [rc |-> -1, data |-> i + 1]
       ELSE [rc |-> -1, data |-> i]

----------------------------------------------------------------------------
(* Vendor, version and subtype extraction from the greeting                *)

ven_cppop == <<"c","p","p","o","p">>
ven_cc    == <<"C","u","b","i","c"," ","C","i","r","c","l","e">>
ven_im    == <<"I","n","t","e","r","M","a","i","l">>
ver_cc    == <<"'","s"," ","v">>
ven_po    == <<"P","o","s","t",".","O","f","f","i","c","e">>
ver_po    == <<" ","v">>
ver_po2   == <<" ","r","e","l","e","a","s","e"," ">>
sub_po    == <<" ","w","i","t","h"," ">>
subver_po == <<" ","v","e","r","s","i","o","n"," ">>

NotFound == -1

\* service_strstr(begin, len, needle, sizeof(needle)-1): offset of the first
\* occurrence of needle in the first len bytes, or NotFound
service_strstr(data, len, needle) ==
    LET at == { i \in 0..(len - Len(needle)) : BytesAt(data, i, needle) }
    IN IF at = {} THEN NotFound
       ELSE CHOOSE i \in at : \A j \in at : i <= j

\* for (; p < line_end && *p && *p != stop; p++): where p stops
scan_token(data, p, line_end, stop) ==
    LET stops == { q \in p..(line_end - 1) : data[q + 1] = NUL \/ data[q + 1] = stop }
    IN IF stops # {} THEN Least(stops)
       ELSE IF p < line_end THEN line_end ELSE p

\* C18 mutant: the copy loops store every byte, without the test v < v_end
copied_unbounded(bytes) == bytes

\* the bytes the copy loops store: if (v < v_end) { *v = *p; v++; }
copied(bytes) == SubSeq(bytes, 1, Min(Len(bytes), MAX_VERSION_SIZE - 1))

\* the version buffer after bytes were stored from its start; bytes stored past
\* its MAX_VERSION_SIZE bytes show as a buffer that is longer than that
stored(version, bytes) ==
    [i \in 1..(IF Len(bytes) > Len(version) THEN Len(bytes) ELSE Len(version)) |->
        IF i <= Len(bytes) THEN bytes[i] ELSE version[i]]

\* the copy loop of the cppop and Cubic Circle branches, then
\* "if (p < line_end && *p) *v = 0; else pd->version[0] = 0;"
version_until(version, data, p, line_end, stop) ==
    LET q == scan_token(data, p, line_end, stop)
        v == copied(Slice(data, p, q))
    IN IF q < line_end /\ data[q + 1] # NUL
       THEN stored(version, Append(v, NUL))
       ELSE stored(stored(version, v), <<NUL>>)

\* the copy loops of the Post.Office branch, each followed by "*v = 0;"
version_copy(version, data, ver, p) ==
    stored(version, Append(copied(CStr(Slice(data, ver, p))), NUL))

post_office(sv, data, at, line_end) ==
    LET p0  == at + Len(ven_po)
        ver == p0 + Len(ver_po)
        p   == scan_token(data, ver, line_end, " ")
        rel == p + Len(ver_po2)
        p2  == scan_token(data, rel, line_end, " ")
        s   == p2 + Len(sub_po)
        p3  == scan_token(data, s, line_end, " ")
        s2  == p3 + Len(subver_po)
        p4  == scan_token(data, s2, line_end, " ")
        with_version == [sv EXCEPT !.version = version_copy(sv.version, data, ver, p)]
        with_release == [sv EXCEPT !.version = version_copy(sv.version, data, ver, p2)]
        sub == [ service |-> Slice(data, s, p3),
                 version |-> IF /\ line_end - p3 > Len(subver_po)
                                /\ BytesAt(data, p3, subver_po)
                                /\ p4 # s2 /\ p4 < line_end /\ data[p4 + 1] # NUL
                             THEN Slice(data, s2, p4)
                             ELSE NoString ]
    IN IF line_end - p0 < Len(ver_po) \/ ~BytesAt(data, p0, ver_po) THEN sv
       ELSE IF p = ver \/ p >= line_end \/ data[p + 1] = NUL THEN sv
       ELSE IF line_end - p < Len(ver_po2) \/ ~BytesAt(data, p, ver_po2) THEN with_version
       ELSE IF p2 >= line_end \/ p2 = rel \/ data[p2 + 1] = NUL THEN with_version
       ELSE IF line_end - p2 < Len(sub_po) \/ ~BytesAt(data, p2, sub_po) THEN with_release
       ELSE IF p3 = s \/ p3 >= line_end \/ data[p3 + 1] = NUL THEN with_release
       ELSE [with_release EXCEPT !.subtype = <<sub>> \o @]

\* the block guarded by "if (server && begin)"; d is the cursor after the status line
vendor_version(sv, data, d) ==
    LET line_end == d - 1
        len      == line_end
        cppop    == service_strstr(data, len, ven_cppop)
        cc       == service_strstr(data, len, ven_cc)
        im       == service_strstr(data, len, ven_im)
        po       == service_strstr(data, len, ven_po)
    IN IF cppop # NotFound THEN
           LET p == cppop + Len(ven_cppop)
           IN IF data[p + 1] = " "
              THEN [sv EXCEPT !.vendor = "cppop",
                              !.version = version_until(@, data, p + 1, line_end, "]")]
              ELSE [sv EXCEPT !.vendor = "cppop"]
       ELSE IF cc # NotFound THEN
           LET p == cc + Len(ven_cc)
           IN IF line_end - p >= Len(ver_cc) /\ BytesAt(data, p, ver_cc)
              THEN [sv EXCEPT !.vendor = "Cubic Circle",
                              !.version = version_until(@, data, p + Len(ver_cc), line_end, " ")]
              ELSE [sv EXCEPT !.vendor = "Cubic Circle"]
       ELSE IF im # NotFound THEN [sv EXCEPT !.vendor = "InterMail"]
       ELSE IF po # NotFound THEN
           post_office([sv EXCEPT !.vendor = "Post.Office"], data, po, line_end)
       ELSE sv

----------------------------------------------------------------------------
(* pop3_server_validate                                                    *)

\* values an out-of-bounds read of a payload byte may produce
OobBytes == {" ", NUL}

\* C5 mutant: a refused STLS leaves the client waiting for the upgrade
stls_response_no_fallback(c) ==
    IF c.server.error # 0
    THEN c
    ELSE add_app(clear_session_flags(set_session_flags(c, APPID_SESSION_ENCRYPTED),
                                     APPID_SESSION_CLIENT_GETS_SERVER_PACKETS),
                 APP_ID_POP3S, APP_ID_POP3S)

\* lines 338-354: the client sent STLS and the server answered
stls_response(c) ==
    IF c.server.error # 0
    THEN [c EXCEPT !.client.state = POP3_CLIENT_STATE_AUTH]
    ELSE add_app(clear_session_flags(set_session_flags(c, APPID_SESSION_ENCRYPTED),
                                     APPID_SESSION_CLIENT_GETS_SERVER_PACKETS),
                 APP_ID_POP3S, APP_ID_POP3S)

\* C16 mutant: after a -ERR the username is kept for the next attempt
user_response_keeps(c) ==
    IF c.server.error # 0
    THEN add_user(c, c.client.username, APP_ID_POP3, 0)
    ELSE LET c1 == [snort_free(add_user(c, c.client.username, APP_ID_POP3, 1)) EXCEPT
                       !.client.username = NoString,
                       !.need_continue = 0,
                       !.client.got_user = 1]
             c2 == clear_session_flags(c1, APPID_SESSION_CLIENT_GETS_SERVER_PACKETS)
         IN IF c.client.detected # 0
            THEN set_session_flags(c2, APPID_SESSION_CLIENT_DETECTED)
            ELSE c2

\* C28 mutant: a successful login is handed over but got_user is not recorded
user_response_forgets(c) ==
    IF c.server.error # 0
    THEN [snort_free(add_user(c, c.client.username, APP_ID_POP3, 0)) EXCEPT
             !.client.username = NoString]
    ELSE LET c1 == [snort_free(add_user(c, c.client.username, APP_ID_POP3, 1)) EXCEPT
                       !.client.username = NoString,
                       !.need_continue = 0]
             c2 == clear_session_flags(c1, APPID_SESSION_CLIENT_GETS_SERVER_PACKETS)
         IN IF c.client.detected # 0
            THEN set_session_flags(c2, APPID_SESSION_CLIENT_DETECTED)
            ELSE c2

\* lines 355-375: a username is held and the server answered
user_response(c) ==
    IF c.server.error # 0
    THEN [snort_free(add_user(c, c.client.username, APP_ID_POP3, 0)) EXCEPT
             !.client.username = NoString]
    ELSE LET c1 == [snort_free(add_user(c, c.client.username, APP_ID_POP3, 1)) EXCEPT
                       !.client.username = NoString,
                       !.need_continue = 0,
                       !.client.got_user = 1]
             c2 == clear_session_flags(c1, APPID_SESSION_CLIENT_GETS_SERVER_PACKETS)
         IN IF c.client.detected # 0
            THEN set_session_flags(c2, APPID_SESSION_CLIENT_DETECTED)
            ELSE c2

\* lines 338-375: the status line is matched against what the client did last
correlate(c) ==
    IF c.client.state = POP3_CLIENT_STATE_STLS_CMD THEN stls_response(c)
    ELSE IF c.client.username # NoString THEN user_response(c)
    ELSE c

\* C10 mutant: the terminator is counted but the parser stays in the body
RECURSIVE pop3_continue_stays(_, _, _)
pop3_continue_stays(c, data, d) ==
    IF d < Len(data) THEN
        IF Len(data) - d = Len(POP3_TERM) /\ BytesAt(data, d, POP3_TERM)
        THEN [c EXCEPT !.server.count = @ + 1, !.parse_rc = 0]
        ELSE LET r == pop3_check_line(data, d)
             IN IF r.rc < 0 THEN [c EXCEPT !.parse_rc = -1]
                ELSE pop3_continue_stays(c, data, r.data)
    ELSE [c EXCEPT !.parse_rc = 0]

\* case POP3_STATE_CONTINUE: the body of a multi-line response, cursor at d
RECURSIVE pop3_continue(_, _, _)
pop3_continue(c, data, d) ==
    IF d < Len(data) THEN
        IF Len(data) - d = Len(POP3_TERM) /\ BytesAt(data, d, POP3_TERM)
        THEN [c EXCEPT !.server.count = @ + 1,
                       !.server.state = POP3_STATE_RESPONSE,
                       !.parse_rc = 0]
        ELSE LET r == pop3_check_line(data, d)
             IN IF r.rc < 0 THEN [c EXCEPT !.parse_rc = -1]
                ELSE pop3_continue(c, data, r.data)
    ELSE [c EXCEPT !.parse_rc = 0]

\* C29 mutant: every status line the service detector parses is searched
greeting_any_line(c, data, d, begin, srv) ==
    IF srv # 0
    THEN [c EXCEPT !.server = vendor_version(@, data, d)]
    ELSE c

\* lines 500-508: the entries pushed on the subtype list were allocated;
\* before is the length the list had
snort_calloc(c, before) ==
    [c EXCEPT !.heap = @ \o [i \in 1..(Len(c.server.subtype) - before) |->
                                HeapEvent("alloc", "subtype", Len(c.heap) + i)]]

\* lines 376-525: if (server && begin) the greeting is searched for a vendor
greeting(c, data, d, begin, srv) ==
    IF srv # 0 /\ begin
    THEN snort_calloc([c EXCEPT !.server = vendor_version(@, data, d)], Len(c.server.subtype))
    ELSE c

\* lines 526-531: the payload ends with the status line, or a body follows
status_end(c, data, d) ==
    IF d >= Len(data)
    THEN [c EXCEPT !.server.count = @ + 1, !.parse_rc = 0]
    ELSE pop3_continue([c EXCEPT !.server.state = POP3_STATE_CONTINUE], data, d)

\* lines 336-531, r being what pop3_check_line returned for the status line
status_line(c, data, r, begin, srv) ==
    IF r.rc < 0 THEN [c EXCEPT !.parse_rc = -1]
    ELSE status_end(greeting(correlate(c), data, r.data, begin, srv), data, r.data)

\* lines 336-531: the rest of the status line, from cursor d
after_status(c, data, d, begin, srv) ==
    status_line(c, data, pop3_check_line(data, d), begin, srv)

\* case POP3_STATE_RESPONSE (entered from CONNECT with begin set)
pop3_response(c, data, begin, srv, oob_byte) ==
    LET size   == Len(data)
        plus   == ~begin /\ data[1] = "+"             \* data[1] is read only then
        byte1  == IF size > 1 THEN data[2] ELSE oob_byte
        c0     == IF plus /\ size < 2 THEN [c EXCEPT !.oob = @ \cup {"data[1]"}] ELSE c
    IN IF plus /\ byte1 = " " THEN
           LET r == pop3_check_line(data, 2)
           IN IF r.rc # 0 THEN [c0 EXCEPT !.parse_rc = -1]
              ELSE IF r.data # size THEN [c0 EXCEPT !.parse_rc = -1]
              ELSE [c0 EXCEPT !.parse_rc = 0]
       ELSE IF size < Len(POP3_ERR) + 1 THEN [c0 EXCEPT !.parse_rc = -1]
       ELSE IF BytesAt(data, 0, POP3_OK)
            THEN after_status([c0 EXCEPT !.server.error = 0], data, Len(POP3_OK), begin, srv)
       ELSE IF BytesAt(data, 0, POP3_ERR)
            THEN after_status([c0 EXCEPT !.server.error = 1], data, Len(POP3_ERR), FALSE, srv)
       ELSE [c0 EXCEPT !.parse_rc = -1]

pop3_server_validate(c, data, srv, oob_byte) ==
    IF c.server.state = POP3_STATE_CONNECT
    THEN pop3_response([c EXCEPT !.server.state = POP3_STATE_RESPONSE], data, TRUE, srv, oob_byte)
    ELSE IF c.server.state = POP3_STATE_RESPONSE
    THEN pop3_response(c, data, FALSE, srv, oob_byte)
    ELSE pop3_continue(c, data, 0)

----------------------------------------------------------------------------
(* Pop3ClientDetector::validate                                            *)

\* sizeof(username) of the local buffer
USERNAME_SIZE == ((255 - Len(USER)) - 2) + 1

\* for (; (s < end) && *s != '\r' && *s != '\n'; s++): the loop stops at the
\* first CR or LF, or at the end of the payload
skip_line(data, s) ==
    LET stops == { q \in s..(Len(data) - 1) : data[q + 1] = CR \/ data[q + 1] = LF }
    IN IF stops = {} THEN Len(data) ELSE Least(stops)

\* for (; (s < end) && (*s == '\r' || *s == '\n'); s++)
skip_crlf(data, s) ==
    LET stops == { q \in s..(Len(data) - 1) : data[q + 1] # CR /\ data[q + 1] # LF }
    IN IF stops = {} THEN Len(data) ELSE Least(stops)

\* isalnum(*s) || *s == '.' || *s == '@' || *s == '-' || *s == '_'
name_byte(b) == isalnum(b) \/ b = "." \/ b = "@" \/ b = "-" \/ b = "_"

\* the username loop (lines 650-676): name is what the local buffer holds and
\* found_tick the flag when the loop is entered at s; term tells that the loop
\* left through the separator branch.  The loop runs over name bytes and
\* backticks up to the first other byte (stop_at), storing the name bytes that
\* come before the first backtick (tick_at); it ends early, at "p < p_end", once
\* the buffer holds USERNAME_SIZE - 1 bytes
username_scan(data, s, name, found_tick) ==
    LET stops   == { q \in s..(Len(data) - 1) :
                        ~name_byte(data[q + 1]) /\ data[q + 1] # TICK }
        stop_at == IF stops = {} THEN Len(data) ELSE Least(stops)
        ticks   == { q \in s..(stop_at - 1) : data[q + 1] = TICK }
        tick_at == IF found_tick THEN s
                   ELSE IF ticks = {} THEN stop_at ELSE Least(ticks)
        room    == (USERNAME_SIZE - 1) - Len(name)
    IN IF tick_at - s >= room
       THEN [s |-> s + room, term |-> FALSE, name |-> name \o Slice(data, s, s + room)]
       ELSE [s    |-> stop_at,
             term |-> stop_at < Len(data) /\ data[stop_at + 1] \in {CR, LF, " "},
             name |-> name \o Slice(data, s, tick_at)]

\* the read of eoc[pattern_index] and the skips that follow it
eoc_skip(r, data, pattern_index, oob_eoc) ==
    LET past == ~(pattern_index < num_pop3_client_patterns)
        n    == Len(r.c.iter)
        c0   == [r.c EXCEPT !.iter[n].eoc_read = {pattern_index}]
        c1   == IF past THEN [c0 EXCEPT !.oob = @ \cup {"eoc"}] ELSE c0
        s1   == IF ~eoc_at(pattern_index, oob_eoc) THEN skip_line(data, r.s) ELSE r.s
    IN [c |-> c1, s |-> skip_crlf(data, s1)]

\* switch (pattern_index): the value the inner switch selects its case label by
switch_on(r, pattern_index) ==
    LET n == Len(r.c.iter)
    IN [r EXCEPT !.c.iter[n].switch_on = {pattern_index}]

\* case POP3_CLIENT_STATE_AUTH: switch (pattern_index)
auth_command(r, data, pattern_index, oob_eoc) ==
    IF pattern_index = PATTERN_STLSEOC \/ pattern_index = PATTERN_STLSEOC2 THEN
        [c |-> [r.c EXCEPT !.client.state = POP3_CLIENT_STATE_STLS_CMD],
         s |-> skip_crlf(data, r.s)]
    ELSE IF pattern_index = PATTERN_APOP \/ pattern_index = PATTERN_USER THEN
        LET u  == username_scan(data, r.s, << >>, FALSE)
            c1 == IF u.term /\ u.name # << >>
                  THEN snort_strdup(IF r.c.client.username # NoString
                                    THEN snort_free(r.c) ELSE r.c,
                                    u.name)
                  ELSE r.c
            c2 == IF pattern_index = PATTERN_APOP
                  THEN [c1 EXCEPT !.client.state = POP3_CLIENT_STATE_TRANS]
                  ELSE c1
        IN [c |-> c2, s |-> skip_crlf(data, skip_line(data, u.s))]
    ELSE IF pattern_index = PATTERN_AUTH THEN
        [c |-> [r.c EXCEPT !.client.state = POP3_CLIENT_STATE_TRANS],
         s |-> skip_crlf(data, skip_line(data, r.s))]
    ELSE IF pattern_index \in {PATTERN_AUTHEOC, PATTERN_AUTHEOC2,
                               PATTERN_AUTHEOC3, PATTERN_AUTHEOC4} THEN
        [c |-> r.c, s |-> skip_crlf(data, r.s)]
    ELSE IF pattern_index = PATTERN_PASS /\ r.c.client.got_user # 0 THEN
        [c |-> [r.c EXCEPT !.client.state = POP3_CLIENT_STATE_TRANS],
         s |-> skip_crlf(data, skip_line(data, r.s))]
    ELSE eoc_skip(r, data, pattern_index, oob_eoc)

\* C21 mutant: in TRANS an STLS command is taken as the start of an upgrade
trans_command_upgrades(r, data, pattern_index, oob_eoc) ==
    IF pattern_index = PATTERN_STLSEOC \/ pattern_index = PATTERN_STLSEOC2
    THEN [c |-> [r.c EXCEPT !.client.state = POP3_CLIENT_STATE_STLS_CMD],
          s |-> skip_crlf(data, r.s)]
    ELSE eoc_skip(r, data, pattern_index, oob_eoc)

\* case POP3_CLIENT_STATE_TRANS
trans_command(r, data, pattern_index, oob_eoc) ==
    LET c1 == IF pattern_index >= PATTERN_POP3_OTHER
              THEN [add_app(r.c, APP_ID_POP3, APP_ID_POP3) EXCEPT !.client.detected = 1]
              ELSE r.c
    IN eoc_skip([c |-> c1, s |-> r.s], data, pattern_index, oob_eoc)

\* C30 mutant: the switch selects its case by the position of the matched
\* pattern in the table, so that USER runs the branch that stores the name
client_command_by_position(r, data, pattern_index, oob_eoc) ==
    IF r.c.client.state = POP3_CLIENT_STATE_STLS_CMD THEN
        auth_command(switch_on([r EXCEPT !.c.client.state = POP3_CLIENT_STATE_AUTH],
                               pattern_index - 1),
                     data, pattern_index - 1, oob_eoc)
    ELSE IF r.c.client.state = POP3_CLIENT_STATE_AUTH THEN
        auth_command(switch_on(r, pattern_index - 1), data, pattern_index - 1, oob_eoc)
    ELSE trans_command(r, data, pattern_index - 1, oob_eoc)

\* C23 mutant: a command that arrives in STLS_CMD is handled without the fall back
client_command_pending(r, data, pattern_index, oob_eoc) ==
    IF r.c.client.state = POP3_CLIENT_STATE_TRANS
    THEN trans_command(r, data, pattern_index, oob_eoc)
    ELSE auth_command(switch_on(r, pattern_index), data, pattern_index, oob_eoc)

\* switch (fd->state), after "s += cmd->length"
client_command(r, data, pattern_index, oob_eoc) ==
    IF r.c.client.state = POP3_CLIENT_STATE_STLS_CMD THEN
        auth_command(switch_on([r EXCEPT !.c.client.state = POP3_CLIENT_STATE_AUTH],
                               pattern_index),
                     data, pattern_index, oob_eoc)
    ELSE IF r.c.client.state = POP3_CLIENT_STATE_AUTH THEN
        auth_command(switch_on(r, pattern_index), data, pattern_index, oob_eoc)
    ELSE trans_command(r, data, pattern_index, oob_eoc)

\* C9 mutant: a miss is reported as NOMATCH
no_match_nomatch(c) ==
    [ set_session_flags(c, APPID_SESSION_CLIENT_DETECTED) EXCEPT
        !.need_continue = 0, !.ret = APPID_NOMATCH ]

\* lines 614-619: no pattern is anchored at the cursor
no_match(c) ==
    [ set_session_flags(c, APPID_SESSION_CLIENT_DETECTED) EXCEPT
        !.need_continue = 0, !.ret = APPID_SUCCESS ]

\* C14 mutant: the matcher is always handed longest_pattern bytes
window_unbounded(length) == longest_pattern

\* line 609: the number of bytes the matcher is handed
window(length) == IF length > longest_pattern THEN longest_pattern ELSE length

\* C13 mutant: the cursor moves on by one byte, not by the length of the command
iteration_one_byte(c, s, length, w, pattern_index) ==
    [ s |-> s, length |-> length, window |-> w, pattern_index |-> pattern_index,
      state |-> c.client.state,
      cmd |-> IF pattern_index > 0 THEN {pattern_index - 1} ELSE {},
      switch_on |-> {}, eoc_read |-> {},
      returned |-> ~(pattern_index > 0),
      s_cmd |-> IF pattern_index > 0 THEN s + 1 ELSE s,
      s_end |-> s ]

\* one pass of the loop, as it stands when the matcher has returned:
\* s, length and the window, the id the matcher left, fd->state; cmd is the
\* index of the matched entry of tcp_patterns; s_cmd is s after "s += cmd->length"
\* and s_end is s at the end of the pass
iteration(c, s, length, w, pattern_index) ==
    [ s |-> s, length |-> length, window |-> w, pattern_index |-> pattern_index,
      state |-> c.client.state,
      cmd |-> IF pattern_index > 0 THEN {pattern_index - 1} ELSE {},
      switch_on |-> {}, eoc_read |-> {},
      returned |-> ~(pattern_index > 0),
      s_cmd |-> IF pattern_index > 0 THEN s + Len(pop3_client_patterns[pattern_index]) ELSE s,
      s_end |-> s ]

RECURSIVE client_loop(_, _, _, _)

\* the end of a pass, r being what the switch left: the loop goes on from r.s
next_pass(r, data, oob_eoc) ==
    client_loop([r.c EXCEPT !.iter[Len(r.c.iter)].s_end = r.s], data, r.s, oob_eoc)

\* lines 612-748: what the loop does with the id the matcher left; it is the pass
matched(c, data, it, oob_eoc) ==
    IF ~(it.pattern_index > 0)
    THEN no_match([c EXCEPT !.iter = Append(@, it)])
    ELSE next_pass(client_command([c |-> [c EXCEPT !.iter = Append(@, it)], s |-> it.s_cmd],
                                  data, it.pattern_index, oob_eoc),
                   data, oob_eoc)

\* lines 608-610: the matcher runs over the bytes of the window (as far as the
\* payload holds them)
match(c, data, s, length, w, oob_eoc) ==
    matched(c, data,
            iteration(c, s, length, w, find_all(Slice(data, s, Min(s + w, Len(data))))),
            oob_eoc)

\* while ((length = (end - s))) ...
client_loop(c, data, s, oob_eoc) ==
    IF Len(data) - s = 0 THEN [c EXCEPT !.ret = APPID_INPROCESS]
    ELSE match(c, data, s, Len(data) - s, window(Len(data) - s), oob_eoc)

\* lines 593-595, c being the flow as pop3_server_validate left it
responder_result(c) ==
    [ (IF c.parse_rc # 0
       THEN clear_session_flags(c, APPID_SESSION_CLIENT_GETS_SERVER_PACKETS)
       ELSE c) EXCEPT !.ret = APPID_INPROCESS ]

\* lines 579-584: the first call asks for the payloads of the server
client_flags(c) ==
    IF c.client.set_flags = 0
    THEN [ set_session_flags(c, APPID_SESSION_CLIENT_GETS_SERVER_PACKETS)
             EXCEPT !.need_continue = 1, !.client.set_flags = 1 ]
    ELSE c

\* lines 586-750, c being the flow once the record is attached and flagged
client_parse(c, dir, data, oob_eoc, oob_byte) ==
    IF dir = APP_ID_FROM_RESPONDER
    THEN responder_result(pop3_server_validate(c, data, 0, oob_byte))
    ELSE client_loop(c, data, 0, oob_eoc)

Pop3ClientDetector_validate(c, dir, data, oob_eoc, oob_byte) ==
    IF Len(data) = 0 THEN [c EXCEPT !.ret = APPID_INPROCESS]
    ELSE client_parse(client_flags(data_add(c)), dir, data, oob_eoc, oob_byte)

----------------------------------------------------------------------------
(* Pop3ServiceDetector::validate                                           *)

\* C6 mutant: the threshold alone decides, whether or not the service was declared
threshold_reached_again(c) ==
    c.server.count >= POP3_COUNT_THRESHOLD

\* lines 841-842: enough responses, and the service not declared yet
threshold_reached(c) ==
    /\ c.server.count >= POP3_COUNT_THRESHOLD
    /\ ~get_session_flags(c, APPID_SESSION_SERVICE_DETECTED)

\* service_inprocess(...); return APPID_INPROCESS;
inprocess(c) == [service_inprocess(c) EXCEPT !.ret = APPID_INPROCESS]

\* C26 mutant: the service is always reported as POP3
service_app_plain(c3) == APP_ID_POP3

\* line 845: the app the service is reported as
service_app(c3) ==
    IF c3.client.state = POP3_CLIENT_STATE_STLS_CMD THEN APP_ID_POP3S ELSE APP_ID_POP3

\* C25 mutant: a parse failure fails the service, declared or not
parse_failed_always(c3) == [fail_service(c3) EXCEPT !.ret = APPID_NOMATCH]

\* lines 852-862: pop3_server_validate reported a failure
parse_failed(c3) ==
    IF ~get_session_flags(c3, APPID_SESSION_SERVICE_DETECTED)
    THEN [fail_service(c3) EXCEPT !.ret = APPID_NOMATCH]
    ELSE [clear_session_flags(c3, APPID_SESSION_CONTINUE) EXCEPT !.ret = APPID_SUCCESS]

\* line 846: the subtype list is handed to add_service_consume_subtype
hand_over(c3) ==
    [c3 EXCEPT !.heap = @ \o released("consume", "subtype",
                                      held(@, "subtype", Len(c3.server.subtype)))]

\* C31 mutant: the flow keeps its pointer to the list it handed over
consumed_keeps(c) == c

\* line 847: pd->subtype = nullptr
consumed(c) == [c EXCEPT !.server.subtype = << >>]

\* lines 839-866: c2 is the flow before pop3_server_validate ran, c3 after it
service_result(c2, c3) ==
    IF c2.need_continue = 0 /\ get_session_flags(c2, APPID_SESSION_SERVICE_DETECTED)
    THEN [c2 EXCEPT !.ret = APPID_SUCCESS]
    ELSE IF c3.parse_rc = 0 THEN
        IF threshold_reached(c3)
        THEN [ consumed(hand_over(add_service_consume_subtype(c3,
                  service_app(c3),
                  c3.server.vendor,
                  IF c3.server.version[1] # NUL THEN CStr(c3.server.version)
                  ELSE NoString,
                  c3.server.subtype)))
               EXCEPT !.ret = APPID_SUCCESS ]
        ELSE inprocess(c3)
    ELSE parse_failed(c3)

\* lines 822-837: the flow as pop3_server_validate is about to see it
service_flags(c1) ==
    IF c1.need_continue # 0
    THEN set_session_flags(c1, APPID_SESSION_CONTINUE)
    ELSE clear_session_flags(c1, APPID_SESSION_CONTINUE)

service_parse(c2, data, oob_byte) ==
    service_result(c2, pop3_server_validate(c2, data, 1, oob_byte))

Pop3ServiceDetector_validate(c, dir, data, oob_byte) ==
    IF Len(data) = 0 THEN inprocess(c)
    ELSE IF dir # APP_ID_FROM_RESPONDER THEN inprocess(c)
    ELSE service_parse(
             service_flags(clear_session_flags(data_add(c),
                                               APPID_SESSION_CLIENT_GETS_SERVER_PACKETS)),
             data, oob_byte)

----------------------------------------------------------------------------
(* Payloads the framework delivers                                         *)

CRLF == <<CR, LF>>

USER_a   == USER \o <<"a">> \o CRLF                          \* USER a
PASS_y   == PASS \o <<"y">> \o CRLF                          \* PASS y
APOP_b   == APOP \o <<"b", " ", "d">> \o CRLF                \* APOP b d
AUTH_x   == AUTH \o <<"x">> \o CRLF                          \* AUTH x
GET_http == <<"G","E","T"," ","/"," ","H","T","T","P","/","1",".","1">> \o CRLF

OK_line    == POP3_OK \o CRLF                                \* +OK
ERR_line   == POP3_ERR \o CRLF                               \* -ERR
OK_cut     == POP3_OK \o <<" ", "h", "i">>                   \* +OK hi, no CRLF yet
PLUS_byte  == <<"+">>                                        \* a one-byte payload
SASL_line  == <<"+", " ", "x">> \o CRLF                      \* "+ x", a SASL challenge
BAD_line   == POP3_OK \o <<TAB>> \o CRLF                     \* a byte that is not printable
\* a multi-line reply: status line, n body lines, terminator
RECURSIVE body_lines(_)
body_lines(n) == IF n = 0 THEN << >> ELSE <<"1", " ", "9">> \o CRLF \o body_lines(n - 1)
multi_line(n) == POP3_OK \o <<" ", "2">> \o CRLF \o body_lines(n) \o POP3_TERM
\* the largest number of body lines in a reply
MaxBodyLines == 2
MultiLineReplies == { multi_line(n) : n \in 0..MaxBodyLines }
LIST_reply == multi_line(2)
PO_greeting ==
    POP3_OK \o <<" ">> \o ven_po \o ver_po \o <<"3",".","5",".","3">> \o ver_po2
            \o <<"2","2","3">> \o sub_po \o <<"R","u","t","g","e","r">> \o subver_po
            \o <<"1",".","0">> \o CRLF

ClientPayloads ==
    { USER_a, PASS_y, USER_a \o PASS_y, APOP_b, STLSEOC, STLSEOC2, AUTH_x, AUTHEOC,
      STAT, CAPA2 \o STAT, GET_http, << >> }

ServerPayloads ==
    { OK_line, ERR_line, OK_cut, PLUS_byte, SASL_line, BAD_line, PO_greeting }
        \cup MultiLineReplies

\* responder payloads the client detector is handed through its cross-direction hook
HookPayloads == { OK_line, ERR_line, BAD_line }

\* what a read of data[1] can yield: the byte itself, or anything when the
\* payload has a single byte
OobByteChoices(data) == IF Len(data) < 2 THEN OobBytes ELSE {NUL}

\* what a read of eoc[pattern_index] past the table can yield; only CAPA2, the
\* last pattern, has such an index
OobEocChoices(data) ==
    IF \E e \in 1..Len(data) : Occurs(data, num_pop3_client_patterns, e)
    THEN BOOLEAN ELSE {FALSE}

\* the longest run of calls the model follows for one flow
MaxSteps == 3

----------------------------------------------------------------------------
(* Actions: one call of a detector by the framework                        *)

TornDown == hist # << >> /\ hist[Len(hist)][1] = "teardown"

Install(c, detector, dir, data) ==
    /\ dd_present' = c.dd_present
    /\ client' = c.client
    /\ server' = c.server
    /\ need_continue' = c.need_continue
    /\ flags' = c.flags
    /\ calls' = c.calls
    /\ ret' = c.ret
    /\ parse_rc' = c.parse_rc
    /\ oob' = c.oob
    /\ iter' = c.iter
    /\ heap' = c.heap
    /\ hist' = Append(hist, <<detector, dir, data>>)
    /\ UNCHANGED freed

\* the client detector is handed a payload of the initiator
ClientValidate(data, oob_eoc) ==
    /\ ~TornDown
    /\ \E c \in { Pop3ClientDetector_validate(Ctx, APP_ID_FROM_INITIATOR, data, oob_eoc, NUL) } :
          Install(c, "client", APP_ID_FROM_INITIATOR, data)

\* the client detector is handed a payload of the responder
ClientValidateResponder(data, oob_byte) ==
    /\ ~TornDown
    /\ \E c \in { Pop3ClientDetector_validate(Ctx, APP_ID_FROM_RESPONDER, data, FALSE, oob_byte) } :
          Install(c, "client", APP_ID_FROM_RESPONDER, data)

\* the service detector is handed a payload
ServiceValidate(dir, data, oob_byte) ==
    /\ ~TornDown
    /\ \E c \in { Pop3ServiceDetector_validate(Ctx, dir, data, oob_byte) } :
          Install(c, "service", dir, data)

\* pop3_free_state, the teardown hook of the session
pop3_free_state ==
    /\ ~TornDown
    /\ dd_present
    /\ freed' = freed
                \o [i \in 1..Len(server.subtype) |-> <<"subtype", server.subtype[i]>>]
                \o (IF client.username # NoString THEN <<<<"username", client.username>>>>
                    ELSE << >>)
                \o <<<<"dd", << >>>>>>
    /\ dd_present' = FALSE
    /\ hist' = Append(hist, <<"teardown", APP_ID_NONE, << >>>>)
    /\ heap' = heap
               \o released("free", "subtype", held(heap, "subtype", Len(server.subtype)))
               \o (IF client.username # NoString
                   THEN released("free", "username", held(heap, "username", 1))
                   ELSE << >>)
    /\ UNCHANGED <<client, server, need_continue, flags, calls, ret, parse_rc, oob, iter>>

Init ==
    /\ dd_present = FALSE
    /\ client = ZeroClient
    /\ server = ZeroServer
    /\ need_continue = 0
    /\ flags = {}
    /\ calls = << >>
    /\ ret = NoReturn
    /\ parse_rc = NoParse
    /\ oob = {}
    /\ hist = << >>
    /\ iter = << >>
    /\ heap = << >>
    /\ freed = << >>

ClientRequest ==
    /\ Len(hist) < MaxSteps
    /\ \E data \in ClientPayloads :
          \E oob_eoc \in OobEocChoices(data) : ClientValidate(data, oob_eoc)

ClientResponse ==
    /\ Len(hist) < MaxSteps
    /\ \E data \in HookPayloads :
          \E oob_byte \in OobByteChoices(data) : ClientValidateResponder(data, oob_byte)

ServiceResponse ==
    /\ Len(hist) < MaxSteps
    /\ \E data \in ServerPayloads \cup {<< >>} :
          \E oob_byte \in OobByteChoices(data) :
              ServiceValidate(APP_ID_FROM_RESPONDER, data, oob_byte)

ServiceRequest ==
    /\ Len(hist) < MaxSteps
    /\ ServiceValidate(APP_ID_FROM_INITIATOR, USER_a, NUL)

Teardown ==
    /\ Len(hist) < MaxSteps
    /\ pop3_free_state

Next ==
    \/ ClientRequest
    \/ ClientResponse
    \/ ServiceResponse
    \/ ServiceRequest
    \/ Teardown

Spec == Init /\ [][Next]_vars

----------------------------------------------------------------------------
(* Long flows: few payloads, more calls                                    *)

FlowClientPayloads == { STLSEOC, PASS_y }
FlowServerPayloads == { OK_line, PO_greeting, BAD_line }

\* the longest run of calls followed for a long flow
MaxFlowSteps == 6

FlowClientRequest ==
    /\ Len(hist) < MaxFlowSteps
    /\ \E data \in FlowClientPayloads : ClientValidate(data, FALSE)

FlowClientResponse ==
    /\ Len(hist) < MaxFlowSteps
    /\ ClientValidateResponder(OK_line, NUL)

FlowServiceResponse ==
    /\ Len(hist) < MaxFlowSteps
    /\ \E data \in FlowServerPayloads : ServiceValidate(APP_ID_FROM_RESPONDER, data, NUL)

NextFlow ==
    \/ FlowClientRequest
    \/ FlowClientResponse
    \/ FlowServiceResponse

SpecFlow == Init /\ [][NextFlow]_vars

----------------------------------------------------------------------------
(* One byte stream delivered in several packets                            *)

SplitStreams ==
    { [detector |-> "client",  dir |-> APP_ID_FROM_INITIATOR, bytes |-> USER_a \o STAT],
      [detector |-> "service", dir |-> APP_ID_FROM_RESPONDER, bytes |-> OK_line \o multi_line(1)] }

\* the largest number of packets a stream is cut into
MaxPackets == 3

RECURSIVE Concat(_)
Concat(payloads) ==
    IF payloads = << >> THEN << >> ELSE Head(payloads) \o Concat(Tail(payloads))

\* the bytes handed to the detector so far
Delivered == Concat([i \in 1..Len(hist) |-> hist[i][3]])

\* the next n bytes of the stream arrive as one packet
SplitDeliver(st, n) ==
    LET done == Len(Delivered)
        data == Slice(st.bytes, done, done + n)
    IN /\ hist # << >> => hist[1][1] = st.detector
       /\ done + n <= Len(st.bytes)
       /\ Delivered = Slice(st.bytes, 0, done)
       /\ Len(hist) + 1 < MaxPackets \/ done + n = Len(st.bytes)
       /\ IF st.detector = "client"
          THEN ClientValidate(data, FALSE)
          ELSE ServiceValidate(st.dir, data, NUL)

SplitClient ==
    \E st \in SplitStreams : \E n \in 1..Len(st.bytes) : st.detector = "client" /\ SplitDeliver(st, n)

SplitService ==
    \E st \in SplitStreams : \E n \in 1..Len(st.bytes) : st.detector = "service" /\ SplitDeliver(st, n)

NextSplit ==
    \/ SplitClient
    \/ SplitService

SpecSplit == Init /\ [][NextSplit]_vars

----------------------------------------------------------------------------
(* The command loop on many payloads                                       *)

tick_arg  == <<"f","o","o",TICK,"b","a","r","@","x">>        \* foo, a backtick, bar@x
USER_tick == USER \o tick_arg \o CRLF
APOP_tick == APOP \o tick_arg \o <<" ", "d">> \o CRLF
PASS_tick == PASS \o tick_arg \o CRLF

\* every pattern of the table as a payload of its own, commands with an
\* argument, several commands in one payload, payloads that end inside a
\* command, blank lines between commands, and bytes that are no command
CmdPayloads ==
    { pop3_client_patterns[k] : k \in 1..num_pop3_client_patterns }
    \cup { USER_tick, APOP_tick, PASS_tick, USER_a, PASS_y, APOP_b, AUTH_x }
    \cup { USER_a \o STAT, PASS_y \o STAT \o QUIT, NOOP \o CRLF \o CRLF \o QUIT,
           Slice(USER, 0, 3), Slice(STAT, 0, 4), Slice(STAT, 0, 5), STAT2 \o <<"x">>,
           GET_http, << >> }

\* the longest run of calls followed when every command is tried
MaxCmdSteps == 2

CmdRequest ==
    /\ Len(hist) < MaxCmdSteps
    /\ \E data \in CmdPayloads :
          \E oob_eoc \in OobEocChoices(data) : ClientValidate(data, oob_eoc)

CmdResponse ==
    /\ Len(hist) < MaxCmdSteps
    /\ ServiceValidate(APP_ID_FROM_RESPONDER, OK_line, NUL)

NextCmd ==
    \/ CmdRequest
    \/ CmdResponse

SpecCmd == Init /\ [][NextCmd]_vars

----------------------------------------------------------------------------
(* Greetings with versions of every length                                 *)

\* n bytes "1"
digits(n) == [i \in 1..n |-> "1"]

\* the longest version string a greeting carries
MaxVersionLen == 65

\* one greeting for each extraction path, with a version of n bytes:
\* cppop with and without the closing bracket, Cubic Circle, Post.Office
\* without and with a release; and a -ERR line that names a vendor
GreetingsOf(n) ==
    { POP3_ERR \o <<" ">> \o ven_po \o ver_po \o digits(n) \o <<" ", "x">> \o CRLF,
      POP3_OK \o <<" ">> \o ven_cppop \o <<" ">> \o digits(n) \o <<"]">> \o CRLF,
      POP3_OK \o <<" ">> \o ven_cppop \o <<" ">> \o digits(n) \o CRLF,
      POP3_OK \o <<" ">> \o ven_cc \o ver_cc \o digits(n) \o <<" ", "x">> \o CRLF,
      POP3_OK \o <<" ">> \o ven_po \o ver_po \o digits(n) \o <<" ", "x">> \o CRLF,
      POP3_OK \o <<" ">> \o ven_po \o ver_po \o digits(n) \o ver_po2 \o <<"2", " ", "x">> \o CRLF }

Greetings == UNION { GreetingsOf(n) : n \in 0..MaxVersionLen }

\* the first server payload reaches the service detector
GreetingService ==
    /\ hist = << >>
    /\ \E data \in Greetings : ServiceValidate(APP_ID_FROM_RESPONDER, data, NUL)

\* the first server payload reaches the client detector through its hook
GreetingHook ==
    /\ hist = << >>
    /\ \E data \in GreetingsOf(MaxVersionLen) : ClientValidateResponder(data, NUL)

\* a second payload that looks like a greeting
GreetingAgain ==
    /\ Len(hist) = 1
    /\ \E data \in GreetingsOf(MaxVersionLen) : ServiceValidate(APP_ID_FROM_RESPONDER, data, NUL)

NextGreeting ==
    \/ GreetingService
    \/ GreetingHook
    \/ GreetingAgain

SpecGreeting == Init /\ [][NextGreeting]_vars

----------------------------------------------------------------------------
(* Names of every length                                                   *)

\* n bytes "u"
letters(n) == [i \in 1..n |-> "u"]

\* the longest name a command carries
MaxNameLen == 253

\* the three commands that carry a name, alone in a payload
NameCommand(pat, n) ==
    pat \o letters(n) \o (IF pat = APOP THEN <<" ", "d">> ELSE << >>) \o CRLF

\* the first payload of the flow is a command with a name of n bytes
UserRequest ==
    /\ hist = << >>
    /\ \E pat \in {USER, APOP, PASS} : \E n \in 1..MaxNameLen :
          ClientValidate(NameCommand(pat, n), FALSE)

\* the server answers it
UserResponse ==
    /\ Len(hist) = 1
    /\ \E data \in {OK_line, ERR_line} : ServiceValidate(APP_ID_FROM_RESPONDER, data, NUL)

NextUser ==
    \/ UserRequest
    \/ UserResponse

SpecUser == Init /\ [][NextUser]_vars

----------------------------------------------------------------------------
(* The life of a flow, up to its teardown                                  *)

\* the longest run of calls followed up to the teardown
MaxLifeSteps == 6

\* the client logs in
LifeRequest ==
    /\ Len(hist) < MaxLifeSteps
    /\ ClientValidate(PASS_y, FALSE)

\* the server greets, with a subtype or without, or answers
LifeResponse ==
    /\ Len(hist) < MaxLifeSteps
    /\ \E data \in {OK_line, PO_greeting} : ServiceValidate(APP_ID_FROM_RESPONDER, data, NUL)

\* the server refuses, and the client detector is handed the line
LifeRefusal ==
    /\ Len(hist) < MaxLifeSteps
    /\ ClientValidateResponder(ERR_line, NUL)

LifeTeardown ==
    /\ Len(hist) < MaxLifeSteps
    /\ pop3_free_state

NextLife ==
    \/ LifeRequest
    \/ LifeResponse
    \/ LifeRefusal
    \/ LifeTeardown

SpecLife == Init /\ [][NextLife]_vars

\* the state of a flow no detector has seen yet
InitCtx ==
    [ dd_present |-> FALSE, client |-> ZeroClient, server |-> ZeroServer,
      need_continue |-> 0, flags |-> {}, calls |-> << >>,
      ret |-> NoReturn, parse_rc |-> NoParse, oob |-> {}, iter |-> << >>, heap |-> << >> ]

\* the whole stream handed over as a single packet
Unsplit(st) ==
    IF st.detector = "client"
    THEN Pop3ClientDetector_validate(InitCtx, st.dir, st.bytes, FALSE, NUL)
    ELSE Pop3ServiceDetector_validate(InitCtx, st.dir, st.bytes, NUL)

\* what the flow holds at the end: sub-states, username, response count, flags, calls
Terminal(c) ==
    [ client_state |-> c.client.state, server_state |-> c.server.state,
      username |-> c.client.username, count |-> c.server.count,
      flags |-> c.flags, calls |-> c.calls ]

----------------------------------------------------------------------------
(* Properties                                                              *)

Last  == hist[Len(hist)]
LastP == hist'[Len(hist')]

ClientSent(data)           == <<"client", APP_ID_FROM_INITIATOR, data>>
ServerSent(detector, data) == <<detector, APP_ID_FROM_RESPONDER, data>>

IsAddUser(call)    == call.f = "add_user"
IsAddService(call) == call.f = "add_service_consume_subtype"
IsFailService(call) == call.f = "fail_service"
IsPop3sApp(call)   == call.f = "add_app" /\ call.app = APP_ID_POP3S
IsPop3App(call)    == call.f = "add_app" /\ call.app = APP_ID_POP3

AddUserCall(name, success) ==
    Call("add_user", APP_ID_NONE, APP_ID_POP3, name, success, NoVendor, NoString, << >>)
AddAppCall(app) ==
    Call("add_app", app, app, NoString, 0, NoVendor, NoString, << >>)

\* C1: in the flow "USER a", "PASS y", then a +OK status line (or a -ERR one),
\* exactly one add_user call is emitted, and it is add_user("a", POP3, 1)
\* (or add_user("a", POP3, 0)): the name is the argument of USER.
C1_UserPassLogin ==
    \A detector \in {"client", "service"}, success \in {0, 1} :
        hist = << ClientSent(USER_a), ClientSent(PASS_y),
                  ServerSent(detector, IF success = 1 THEN OK_line ELSE ERR_line) >>
        => SelectSeq(calls, IsAddUser) = << AddUserCall(<<"a">>, success) >>

\* C2: after an STLS command in either spelling the client is STLS_PENDING, and a
\* +OK accepted next sets ENCRYPTED, clears CLIENT_GETS_SERVER_PACKETS and emits
\* add_app(POP3S, POP3S, null).
C2_StlsUpgrade ==
    \A stls \in {STLSEOC, STLSEOC2} :
        /\ hist = << ClientSent(stls) >> => client.state = POP3_CLIENT_STATE_STLS_CMD
        /\ \A detector \in {"client", "service"} :
             hist = << ClientSent(stls), ServerSent(detector, OK_line) >>
             => /\ APPID_SESSION_ENCRYPTED \in flags
                /\ APPID_SESSION_CLIENT_GETS_SERVER_PACKETS \notin flags
                /\ \E i \in 1..Len(calls) : calls[i] = AddAppCall(APP_ID_POP3S)

\* C3: over the whole flow the STLS-success action happens at most once: no
\* second add_app(POP3S) is emitted, whatever the server sends later.
C3_StlsSuccessOnce ==
    Len(SelectSeq(calls, IsPop3sApp)) <= 1

\* C4: once the flow was reclassified as POP3S (ENCRYPTED set), a client payload
\* changes neither the client sub-state nor the username, and emits no add_app(POP3).
C4_NoClientParsingAfterStls ==
    [][ ( /\ APPID_SESSION_ENCRYPTED \in flags
          /\ hist' # hist
          /\ LastP[1] = "client" /\ LastP[2] = APP_ID_FROM_INITIATOR )
        => /\ client'.state = client.state
           /\ client'.username = client.username
           /\ SelectSeq(calls', IsPop3App) = SelectSeq(calls, IsPop3App) ]_vars

\* C5: when the client is STLS_PENDING and the server parser is handed a -ERR
\* status line, the client falls back to AUTH, ENCRYPTED is not set, no
\* add_app(POP3S) is emitted and the parser reports no failure.
C5_StlsRefusal ==
    [][ ( /\ client.state = POP3_CLIENT_STATE_STLS_CMD
          /\ server.state # POP3_STATE_CONTINUE
          /\ hist' # hist
          /\ LastP[2] = APP_ID_FROM_RESPONDER /\ LastP[3] = ERR_line
          /\ parse_rc' # NoParse )
        => /\ client'.state = POP3_CLIENT_STATE_AUTH
           /\ (APPID_SESSION_ENCRYPTED \in flags') = (APPID_SESSION_ENCRYPTED \in flags)
           /\ SelectSeq(calls', IsPop3sApp) = SelectSeq(calls, IsPop3sApp)
           /\ parse_rc' = 0 ]_vars

C5_Witness ==
    /\ hist = << ClientSent(STLSEOC), ServerSent("service", ERR_line) >>
    /\ client.state = POP3_CLIENT_STATE_AUTH
    /\ APPID_SESSION_ENCRYPTED \notin flags
    /\ parse_rc = 0

\* C6: add_service_consume_subtype is emitted at most once in a flow; once the
\* service detector has parsed a payload successfully with response_count at 4 or
\* more and no fail_service before, it has been emitted exactly once; and right
\* after it the subtype list of the flow is empty.
C6_ServiceReportedOnce ==
    /\ Len(SelectSeq(calls, IsAddService)) <= 1
    /\ ( /\ hist # << >>
         /\ Last[1] = "service" /\ Last[2] = APP_ID_FROM_RESPONDER
         /\ parse_rc = 0
         /\ server.count >= POP3_COUNT_THRESHOLD
         /\ SelectSeq(calls, IsFailService) = << >> )
       => Len(SelectSeq(calls, IsAddService)) = 1
    /\ (calls # << >> /\ IsAddService(calls[Len(calls)])) => server.subtype = << >>

C6_Witness ==
    /\ server.count > POP3_COUNT_THRESHOLD
    /\ Last = ServerSent("service", OK_line)
    /\ parse_rc = 0
    /\ \E i \in 1..Len(calls) : IsAddService(calls[i]) /\ calls[i].subtype # << >>
    /\ Len(SelectSeq(calls, IsAddService)) = 1

\* C7: one "APOP b d" command in AUTH leaves the client in TRANS and captures "b"
\* as the username; a +OK that follows yields add_user("b", POP3, 1) and clears
\* the username.
C7_ApopAtomic ==
    /\ hist = << ClientSent(APOP_b) >>
       => client.state = POP3_CLIENT_STATE_TRANS /\ client.username = <<"b">>
    /\ hist = << ClientSent(APOP_b), ServerSent("service", OK_line) >>
       => /\ \E i \in 1..Len(calls) : calls[i] = AddUserCall(<<"b">>, 1)
          /\ client.username = NoString

\* C8: a byte stream delivered in several packets, cut anywhere, ends in the same
\* flow state and the same framework calls as the stream delivered in one packet.
C8_SplitIndependence ==
    \A st \in SplitStreams :
        (hist # << >> /\ hist[1][1] = st.detector /\ Delivered = st.bytes)
        => Terminal(Ctx) = Terminal(Unsplit(st))

\* C9: the client detector returns INPROCESS or SUCCESS only; SUCCESS comes with
\* CLIENT_DETECTED set and need_continue cleared, and only for a payload holding
\* bytes no pattern is anchored at; a payload whose first bytes match no pattern
\* gives SUCCESS with those effects and emits no call.
C9_NonPop3 ==
    [][ (hist' # hist /\ LastP[1] = "client")
        => LET data == LastP[3]
               miss(s) == find_all(Slice(data, s, s + Min(Len(data) - s, longest_pattern))) = 0
           IN /\ ret' \in {APPID_INPROCESS, APPID_SUCCESS}
              /\ ret' = APPID_SUCCESS =>
                    /\ LastP[2] = APP_ID_FROM_INITIATOR
                    /\ APPID_SESSION_CLIENT_DETECTED \in flags'
                    /\ need_continue' = 0
                    /\ \E s \in 0..(Len(data) - 1) : miss(s)
              /\ (LastP[2] = APP_ID_FROM_INITIATOR /\ data # << >> /\ miss(0)) =>
                    /\ ret' = APPID_SUCCESS
                    /\ APPID_SESSION_CLIENT_DETECTED \in flags'
                    /\ need_continue' = 0
                    /\ calls' = calls ]_vars

C9_Witness ==
    /\ hist = << ClientSent(GET_http) >>
    /\ ret = APPID_SUCCESS
    /\ APPID_SESSION_CLIENT_DETECTED \in flags
    /\ need_continue = 0
    /\ calls = << >>

\* C10: a +OK status line, body lines and the "." CRLF terminator, handed to the
\* server parser in sub-state RESPONSE, add exactly one to response_count, leave
\* the sub-state RESPONSE and report no failure.
C10_MultiLine ==
    [][ ( /\ server.state = POP3_STATE_RESPONSE
          /\ hist' # hist
          /\ LastP[2] = APP_ID_FROM_RESPONDER /\ LastP[3] \in MultiLineReplies
          /\ parse_rc' # NoParse )
        => /\ server'.count = server.count + 1
           /\ server'.state = POP3_STATE_RESPONSE
           /\ parse_rc' = 0 ]_vars

C10_Witness ==
    /\ hist = << ServerSent("service", OK_line), ServerSent("service", LIST_reply) >>
    /\ server.count = 2
    /\ server.state = POP3_STATE_RESPONSE
    /\ parse_rc = 0

\* C11: the payload "USER foo<backtick>bar@x" CRLF, and the same argument given to
\* APOP, stores the username "foo": the bytes from the first backtick up to the
\* CR, LF or space that ends the name are dropped.
C11_BacktickSanitized ==
    \A data \in {USER_tick, APOP_tick} :
        hist = << ClientSent(data) >> => client.username = <<"f","o","o">>

\* C12: the greeting "+OK Post.Office v3.5.3 release 223 with Rutger version 1.0"
\* CRLF, handed to the service detector as the first server payload, leaves vendor
\* "Post.Office", version "3.5.3 release 223" and exactly one subtype entry, with
\* service "Rutger" and version "1.0".
C12_PostOfficeGreeting ==
    hist = << ServerSent("service", PO_greeting) >>
    => /\ server.vendor = "Post.Office"
       /\ CStr(server.version) =
              <<"3",".","5",".","3"," ","r","e","l","e","a","s","e"," ","2","2","3">>
       /\ server.subtype = << [ service |-> <<"R","u","t","g","e","r">>,
                                version |-> <<"1",".","0">> ] >>

\* the last call handed the client parser a payload of the initiator
ClientParsed == hist # << >> /\ Last[1] = "client" /\ Last[2] = APP_ID_FROM_INITIATOR

\* C13: the command loop ends on every payload: a pass either returns or moves the
\* cursor on by at least the length of the matched pattern, which is 4 bytes or
\* more, each pass starts where the one before ended, and there are no more
\* passes than the payload has bytes.
C13_LoopTerminates ==
    ClientParsed =>
        /\ ret \in {APPID_INPROCESS, APPID_SUCCESS}
        /\ Len(iter) <= Len(Last[3])
        /\ \A i \in 1..Len(iter) :
              /\ iter[i].returned => i = Len(iter)
              /\ ~iter[i].returned =>
                    /\ iter[i].s_end >= iter[i].s + Len(pop3_client_patterns[iter[i].pattern_index])
                    /\ iter[i].s_end >= iter[i].s + 4
              /\ i > 1 => iter[i].s = iter[i - 1].s_end

C13_Witness ==
    /\ ClientParsed
    /\ Last = ClientSent(PASS_y \o STAT \o QUIT)
    /\ Len(iter) = 3
    /\ \A i \in 1..3 : ~iter[i].returned
    /\ iter[3].s_end = Len(Last[3])
    /\ ret = APPID_INPROCESS

\* C14: in the command loop the cursor stays between the start and the end of the
\* payload, the matcher is handed no more bytes than remain, and moving on by the
\* length of the matched pattern does not pass the end.
C14_CursorInBounds ==
    ClientParsed =>
        \A i \in 1..Len(iter) :
            /\ 0 <= iter[i].s /\ iter[i].s < Len(Last[3])
            /\ iter[i].length = Len(Last[3]) - iter[i].s
            /\ iter[i].window <= iter[i].length
            /\ iter[i].window <= longest_pattern
            /\ iter[i].s <= iter[i].s_cmd
            /\ iter[i].s_cmd <= iter[i].s_end
            /\ iter[i].s_end <= Len(Last[3])

C14_Witness ==
    /\ ClientParsed
    /\ Last = ClientSent(USER)
    /\ Len(iter) = 1
    /\ iter[1].window = Len(USER) /\ iter[1].window < longest_pattern
    /\ iter[1].s_cmd = Len(USER) /\ iter[1].s_end = Len(USER)

\* the payload holds the command pat at offset at
HoldsCommand(data, pat) == \E at \in 0..Len(data) : BytesAt(data, at, pat)

\* C15: the username of the flow becomes present, or is replaced, only when the
\* client parser is handed a payload that holds a USER or an APOP command; no other
\* command and no server payload stores a username.
C15_UsernameOnlyByUserOrApop ==
    [][ (client'.username # client.username /\ client'.username # NoString)
        => /\ hist' # hist
           /\ LastP[1] = "client" /\ LastP[2] = APP_ID_FROM_INITIATOR
           /\ HoldsCommand(LastP[3], USER) \/ HoldsCommand(LastP[3], APOP) ]_vars

\* the server parser, not in the body of a multi-line response, is handed a
\* payload that starts with the status word and whose line it accepts
StatusAccepted(data, word) ==
    /\ server.state # POP3_STATE_CONTINUE
    /\ Len(data) >= Len(POP3_ERR) + 1
    /\ BytesAt(data, 0, word)
    /\ pop3_check_line(data, Len(word)).rc >= 0

\* a username is held in sub-state TRANS only: the branch that stores it moves
\* there, and the sub-state TRANS is never left
UsernameOnlyInTrans ==
    client.username # NoString => client.state = POP3_CLIENT_STATE_TRANS

CompleteResponse(data) ==
    \/ /\ server.state # POP3_STATE_CONTINUE
       /\ \E word \in {POP3_OK, POP3_ERR} :
             /\ BytesAt(data, 0, word)
             /\ pop3_check_line(data, Len(word)) = [rc |-> 0, data |-> Len(data)]
    \/ /\ Len(data) >= Len(POP3_TERM)
       /\ BytesAt(data, Len(data) - Len(POP3_TERM), POP3_TERM)

\* C17: response_count changes only by one, and only when the server parser was
\* handed a complete response: a status line cut off before its CRLF, or a body
\* without terminator, leaves it as it is.
C17_CountOnlyComplete ==
    [][ server'.count # server.count
        => /\ hist' # hist
           /\ LastP[2] = APP_ID_FROM_RESPONDER
           /\ server'.count = server.count + 1
           /\ CompleteResponse(LastP[3]) ]_vars

\* C19: in every pass of the command loop the value the parser switches on, and
\* the position of eoc it reads, are the position of the matched entry in the
\* pattern table (USER takes the USER branch, PASS the PASS branch, and so on).
C19_DispatchMatchesPattern ==
    ClientParsed =>
        \A i \in 1..Len(iter) :
            /\ iter[i].switch_on \subseteq iter[i].cmd
            /\ iter[i].eoc_read \subseteq iter[i].cmd

\* the authorization-phase commands, in every spelling
AuthorizationPatterns ==
    { USER, PASS, APOP, AUTH, AUTHEOC, AUTHEOC2, AUTHEOC3, AUTHEOC4, STLSEOC, STLSEOC2 }

\* a pass of the loop in sub-state TRANS that matched a transaction-phase command
TransactionPass(it) ==
    /\ ~it.returned
    /\ it.state = POP3_CLIENT_STATE_TRANS
    /\ pop3_client_patterns[it.pattern_index] \notin AuthorizationPatterns

\* C20: a call of the client parser emits add_app(POP3) once for every pass of the
\* loop that is in sub-state TRANS with a transaction-phase command matched, and
\* for no other pass; detected is set only by such a pass.  An authorization-phase
\* command reports nothing, in any sub-state.
C20_Pop3OnlyByTransaction ==
    [][ (hist' # hist /\ LastP[1] = "client" /\ LastP[2] = APP_ID_FROM_INITIATOR)
        => LET passes == { i \in 1..Len(iter') : TransactionPass(iter'[i]) }
           IN /\ Len(SelectSeq(calls', IsPop3App))
                    = Len(SelectSeq(calls, IsPop3App)) + Cardinality(passes)
              /\ (client'.detected # 0 /\ ~(dd_present /\ client.detected # 0))
                    => passes # {} ]_vars

\* C18: the version buffer has its MAX_VERSION_SIZE bytes and a zero byte among
\* them, whatever greeting was parsed: every extraction path stores at most
\* MAX_VERSION_SIZE - 1 version bytes and then the terminator, or empties the buffer.
C18_VersionTerminated ==
    /\ Len(server.version) = MAX_VERSION_SIZE
    /\ \E i \in 1..MAX_VERSION_SIZE : server.version[i] = NUL
    /\ Len(CStr(server.version)) <= MAX_VERSION_SIZE - 1

C18_Witness ==
    /\ Len(hist) = 1
    /\ hist[1][1] = "service"
    /\ Len(hist[1][3]) > MaxVersionLen
    /\ server.vendor = "Post.Office"
    /\ Len(CStr(server.version)) = MAX_VERSION_SIZE - 1
    /\ server.version[MAX_VERSION_SIZE] = NUL

\* C21: once the client sub-state is TRANS it stays TRANS: no payload of the
\* client (an STLS command included) and no payload of the server (a -ERR
\* included) changes it to AUTH or to STLS_PENDING.
C21_TransAbsorbing ==
    [][ client.state = POP3_CLIENT_STATE_TRANS
        => client'.state = POP3_CLIENT_STATE_TRANS ]_vars

C21_Witness ==
    /\ hist = << ClientSent(PASS_y), ClientSent(STLSEOC), ServerSent("service", ERR_line) >>
    /\ client.state = POP3_CLIENT_STATE_TRANS
    /\ parse_rc = 0

\* C22: a PASS command processed in AUTH moves the client to TRANS if and only
\* if got_user is set at that moment; got_user is set only by a +OK the server
\* parser accepts while a username is held; so "USER a" and "PASS y" sent in one
\* payload before any server payload leave the client in AUTH with no username.
C22_PassNeedsGotUser ==
    [][ /\ client'.got_user # client.got_user
           => /\ hist' # hist
              /\ LastP[2] = APP_ID_FROM_RESPONDER
              /\ StatusAccepted(LastP[3], POP3_OK)
              /\ client.username # NoString
        /\ (hist' # hist /\ LastP[1] = "client" /\ LastP[2] = APP_ID_FROM_INITIATOR)
           => LET n == Len(iter')
              IN /\ ( /\ n > 0
                      /\ iter'[n].cmd = {PATTERN_PASS}
                      /\ iter'[n].state = POP3_CLIENT_STATE_AUTH )
                    => /\ client'.state = POP3_CLIENT_STATE_TRANS <=> client.got_user # 0
                       /\ client.got_user = 0 => client'.state = POP3_CLIENT_STATE_AUTH
                 /\ (hist = << >> /\ LastP[3] = USER_a \o PASS_y)
                    => /\ client'.state = POP3_CLIENT_STATE_AUTH
                       /\ client'.username = NoString ]_vars

\* the sub-state a pass of the command loop ends in
StateAfter(its, i, final) == IF i < Len(its) THEN its[i + 1].state ELSE final

\* the pass matched an STLS command, in one of its two spellings
StlsPass(it) == pop3_client_patterns[it.pattern_index] \in {STLSEOC, STLSEOC2}

\* C23: the client sub-state becomes STLS_PENDING only in a call of the client
\* parser, and a pass of the command loop ends in STLS_PENDING only if it matched
\* an STLS command and did not start in TRANS: no other command enters that
\* sub-state, and any other command met in STLS_PENDING leaves it (for AUTH).
C23_StlsPendingOnlyByStls ==
    [][ /\ (client'.state = POP3_CLIENT_STATE_STLS_CMD
             /\ client.state # POP3_CLIENT_STATE_STLS_CMD)
           => /\ hist' # hist
              /\ LastP[1] = "client" /\ LastP[2] = APP_ID_FROM_INITIATOR
        /\ (hist' # hist /\ LastP[1] = "client" /\ LastP[2] = APP_ID_FROM_INITIATOR)
           => \A i \in 1..Len(iter') :
                 ( /\ ~iter'[i].returned
                   /\ StateAfter(iter', i, client'.state) = POP3_CLIENT_STATE_STLS_CMD )
                 => /\ StlsPass(iter'[i])
                    /\ iter'[i].state # POP3_CLIENT_STATE_TRANS ]_vars

C23_Witness ==
    /\ hist = << ClientSent(STLSEOC), ClientSent(USER_a) >>
    /\ Len(iter) = 1
    /\ iter[1].state = POP3_CLIENT_STATE_STLS_CMD
    /\ ~iter[1].returned
    /\ client.state = POP3_CLIENT_STATE_AUTH

\* the patterns anchored at offset 0 of a window: those that end at their own length
Anchored(text) ==
    { id \in 1..num_pop3_client_patterns :
          Occurs(text, cooked_idx(id), Len(pop3_client_patterns[id])) }

\* the window the matcher is handed in a pass of the command loop
WindowOf(data, it) == Slice(data, it.s, it.s + it.window)

\* C24: in every window the matcher is handed, at most one pattern of the table
\* is anchored at offset 0, so the command it reports is the same whatever the
\* order in which it reports its matches.
C24_OneAnchored ==
    ClientParsed =>
        \A i \in 1..Len(iter) : Cardinality(Anchored(WindowOf(Last[3], iter[i]))) <= 1

FailServiceCall ==
    Call("fail_service", APP_ID_NONE, APP_ID_NONE, NoString, 0, NoVendor, NoString, << >>)

\* the call that is being made hands a payload of the responder to the service
\* detector, and the server parser reports a failure
ServiceParseFailed ==
    /\ hist' # hist
    /\ LastP[1] = "service" /\ LastP[2] = APP_ID_FROM_RESPONDER
    /\ parse_rc' = -1

\* C25: when the server parser reports a failure to the service detector and
\* SERVICE_DETECTED is not set, fail_service is called once for that payload and
\* NOMATCH is returned; when SERVICE_DETECTED is set, fail_service is not called
\* and the value returned is not NOMATCH.  Either detector returns INPROCESS,
\* SUCCESS or NOMATCH only.
C25_ParseFailure ==
    [][ /\ (ServiceParseFailed /\ APPID_SESSION_SERVICE_DETECTED \notin flags)
           => /\ SelectSeq(calls', IsFailService)
                    = Append(SelectSeq(calls, IsFailService), FailServiceCall)
              /\ IsFailService(calls'[Len(calls')])
              /\ ret' = APPID_NOMATCH
        /\ (ServiceParseFailed /\ APPID_SESSION_SERVICE_DETECTED \in flags)
           => /\ SelectSeq(calls', IsFailService) = SelectSeq(calls, IsFailService)
              /\ ret' # APPID_NOMATCH
        /\ (hist' # hist /\ LastP[1] # "teardown")
           => ret' \in {APPID_INPROCESS, APPID_SUCCESS, APPID_NOMATCH} ]_vars

C25_Witness ==
    /\ hist # << >>
    /\ Last = ServerSent("service", BAD_line)
    /\ parse_rc = -1
    /\ APPID_SESSION_SERVICE_DETECTED \in flags
    /\ Len(SelectSeq(calls, IsAddService)) = 1
    /\ SelectSeq(calls, IsFailService) = << >>
    /\ ret = APPID_SUCCESS

\* the call that is being made reports the service
ServiceReported ==
    /\ hist' # hist
    /\ Len(SelectSeq(calls', IsAddService)) > Len(SelectSeq(calls, IsAddService))

\* C26: the app add_service_consume_subtype carries is POP3S if and only if the
\* client sub-state is STLS_PENDING when the threshold test is made, and POP3
\* otherwise; the call also carries the vendor that was captured, the version
\* (none when it is empty) and the subtype list gathered so far, which the flow
\* no longer holds afterwards.
C26_ReportedApp ==
    [][ ServiceReported
        => LET call == calls'[Len(calls')]
           IN /\ IsAddService(call)
              /\ call.service = APP_ID_POP3S <=> client'.state = POP3_CLIENT_STATE_STLS_CMD
              /\ call.service \in {APP_ID_POP3S, APP_ID_POP3}
              /\ call.vendor = server'.vendor
              /\ call.version = CStr(server'.version)
              /\ call.subtype = server.subtype
              /\ server'.subtype = << >> ]_vars

C26_Witness ==
    /\ hist # << >>
    /\ hist[1] = ClientSent(STLSEOC)
    /\ client.state = POP3_CLIENT_STATE_STLS_CMD
    /\ calls # << >>
    /\ IsAddService(calls[Len(calls)])
    /\ calls[Len(calls)].service = APP_ID_POP3S
    /\ calls[Len(calls)].vendor = "Post.Office"
    /\ calls[Len(calls)].version # NoString
    /\ Len(calls[Len(calls)].subtype) = 1

\* C27: a USER or APOP command whose name is longer than the cap of 252 bytes
\* stores the first 252 bytes of the name as the username: the name is cut, it
\* is not dropped, and the call does not fail.
C27_UsernameTruncated ==
    \A pat \in {USER, APOP} : \A n \in 253..MaxNameLen :
        hist = << ClientSent(NameCommand(pat, n)) >>
        => /\ client.username = letters(252)
           /\ ret = APPID_INPROCESS

\* what the name-capturing branch does when it runs (the matcher's id 2, "PASS ",
\* selects it): a name of fewer than USERNAME_SIZE - 1 bytes is stored whole, a
\* longer one is not stored at all, the loop ending before it meets the separator
NameBranchDrops ==
    \A n \in 1..MaxNameLen :
        hist = << ClientSent(NameCommand(PASS, n)) >>
        => client.username = IF n < USERNAME_SIZE - 1 THEN letters(n) ELSE NoString

\* the call that is being made hands the server parser a status line it accepts,
\* while the flow holds a username and the client is not STLS_PENDING
UserAnswered(word) ==
    /\ hist' # hist
    /\ LastP[2] = APP_ID_FROM_RESPONDER
    /\ parse_rc' # NoParse
    /\ dd_present
    /\ client.username # NoString
    /\ client.state # POP3_CLIENT_STATE_STLS_CMD
    /\ StatusAccepted(LastP[3], word)

\* C28: when the server parser accepts a +OK while a username is held and the
\* client is not STLS_PENDING, that call clears need_continue, sets got_user,
\* clears CLIENT_GETS_SERVER_PACKETS, and sets CLIENT_DETECTED exactly when
\* detected was set before (the flag is otherwise left as it was); when it accepts
\* a -ERR, need_continue, got_user and CLIENT_DETECTED stay as they were.
C28_LoginEffects ==
    [][ /\ UserAnswered(POP3_OK)
           => /\ need_continue' = 0
              /\ client'.got_user = 1
              /\ APPID_SESSION_CLIENT_GETS_SERVER_PACKETS \notin flags'
              /\ APPID_SESSION_CLIENT_DETECTED \in flags'
                    <=> (client.detected # 0 \/ APPID_SESSION_CLIENT_DETECTED \in flags)
        /\ UserAnswered(POP3_ERR)
           => /\ need_continue' = need_continue
              /\ client'.got_user = client.got_user
              /\ APPID_SESSION_CLIENT_DETECTED \in flags'
                    <=> APPID_SESSION_CLIENT_DETECTED \in flags ]_vars

C28_Witness ==
    /\ hist = << ClientSent(PASS_y), ClientSent(STAT), ServerSent("client", OK_line) >>
    /\ client.detected = 1
    /\ client.got_user = 1
    /\ need_continue = 0
    /\ flags = {APPID_SESSION_CLIENT_DETECTED}
    /\ SelectSeq(calls, IsAddUser) = << AddUserCall(<<"y">>, 1) >>

\* no payload of the server has reached the server parser yet
NoServerPayloadYet ==
    \A i \in 1..Len(hist) : hist[i][2] = APP_ID_FROM_RESPONDER => hist[i][3] = << >>

\* C29: vendor, version and the subtype list are written only when the service
\* detector is handed the first server payload of the flow and that payload
\* starts with +OK; a -ERR greeting, every later server payload and every payload
\* handed over by the client detector leave them as they are (but for the
\* subtype list being emptied when the service is reported).
C29_VendorOnlyFromGreeting ==
    [][ ( \/ server'.vendor # server.vendor
          \/ server'.version # server.version
          \/ /\ server'.subtype # server.subtype
             /\ ~(ServiceReported /\ server'.subtype = << >>) )
        => /\ hist' # hist
           /\ LastP[1] = "service" /\ LastP[2] = APP_ID_FROM_RESPONDER
           /\ NoServerPayloadYet
           /\ BytesAt(LastP[3], 0, POP3_OK) ]_vars

C29_Witness ==
    /\ Len(hist) = 2
    /\ hist[1][1] = "client" /\ hist[1][2] = APP_ID_FROM_RESPONDER
    /\ BytesAt(hist[1][3], 0, POP3_OK \o <<" ">> \o ven_po)
    /\ hist[2][1] = "service"
    /\ BytesAt(hist[2][3], 0, POP3_OK \o <<" ">> \o ven_cppop)
    /\ parse_rc = 0
    /\ server.vendor = NoVendor
    /\ server.version = ZeroVersion
    /\ server.subtype = << >>

\* a successful login was reported
IsLoginSuccess(call) == IsAddUser(call) /\ call.success = 1

\* the client has sent a PASS or an APOP command
PassSent ==
    \E i \in 1..Len(hist) :
        /\ hist[i][1] = "client" /\ hist[i][2] = APP_ID_FROM_INITIATOR
        /\ HoldsCommand(hist[i][3], PASS) \/ HoldsCommand(hist[i][3], APOP)

Releases(h, id) ==
    { j \in 1..Len(h) : h[j].op \in {"free", "consume"} /\ h[j].id = id }

\* the buffers of a kind that were allocated and not released so far
Live(h, what) == { i \in allocations(h, what) : Releases(h, i) = {} }

\* C31: every subtype entry and every username buffer of a flow is released
\* exactly once over the life of the flow.  No buffer is released twice, and none
\* before it was allocated; an entry handed to add_service_consume_subtype is
\* not freed by the teardown; until the teardown the buffers not yet released
\* are those the flow holds (the username, the entries of the subtype list);
\* after the teardown every buffer has been released once.
C31_ReleasedOnce ==
    /\ \A j \in 1..Len(heap) :
          heap[j].op # "alloc"
          => /\ heap[j].id \in allocations(heap, heap[j].what)
             /\ heap[j].id < j
             /\ Releases(heap, heap[j].id) = {j}
    /\ ~TornDown
       => /\ Cardinality(Live(heap, "username")) = IF client.username # NoString THEN 1 ELSE 0
          /\ Cardinality(Live(heap, "subtype")) = Len(server.subtype)
    /\ TornDown
       => \A what \in {"username", "subtype"} :
             \A i \in allocations(heap, what) : Cardinality(Releases(heap, i)) = 1

C31_Witness ==
    /\ TornDown
    /\ \E i, j, k, l \in 1..Len(heap) :
          /\ heap[i] = HeapEvent("alloc", "subtype", i)
          /\ heap[j] = HeapEvent("consume", "subtype", i)
          /\ heap[k] = HeapEvent("alloc", "username", k)
          /\ heap[l] = HeapEvent("free", "username", k)
          /\ l = Len(heap)
    /\ SelectSeq(calls, IsAddUser) = << >>

\* C32: every read of the table eoc made by the client parser is at a position
\* inside the table, 0 .. num_pop3_client_patterns - 1, whichever pattern the
\* matcher reported and whether the flow is in AUTH or in TRANS; no read of eoc
\* goes past its end.
C32_EocReadInTable ==
    /\ \A i \in 1..Len(iter) :
          iter[i].eoc_read \subseteq 0..(num_pop3_client_patterns - 1)
    /\ "eoc" \notin oob

\* C33: the server parser reads no payload byte at an offset at or beyond the
\* payload size, in any server sub-state and for any non-empty payload, a
\* one-byte payload in RESPONSE included.
C33_ServerReadsInPayload ==
    "data[1]" \notin oob

====
